---- MODULE Spec2Model ----
(***************************************************************************)
(* Appointment scheduling of Cloud-Project: the /agendar and               *)
(* /cancelar/:idCita handlers of the citas router (two revisions of the    *)
(* cancel handler: routes/citas.js and the second citas router file) and   *)
(* the /disponibilidad router over the Disponibilidad table.               *)
(*                                                                         *)
(* A request is a process: between two awaits a handler runs to            *)
(* completion, so one step is "a remote call returns and the handler runs  *)
(* up to its next await".  The remote call's effect on the remote store    *)
(* happens in the step in which it returns; a call that fails leaves the   *)
(* remote store as it was.  The Disponibilidad table is what the SQL       *)
(* statements make of it: a bag of rows, with no uniqueness constraint.    *)
(***************************************************************************)
EXTENDS Integers, Sequences, FiniteSets, TLC

\* ---------------------------------------------------------------- bounds
MaxReqs == 2      \* book / cancel requests per behaviour
MaxCitas == 2     \* appointment ids the history service can issue
MaxDisp == 2      \* direct requests to the /disponibilidad router per behaviour

Pacientes == {"123"}
Doctores == {"456", "789"}
Dias == {"Lunes"}
Horas == {"09:00:00", "10:00:00"}
Reqs == 1..MaxReqs
CitaIds == {1, 2}   \* the ids cancel requests name

Slots == [dni_doctor : Doctores, dia : Dias, hora : Horas]

\* Outcomes of an axios call: a 2xx answer with a body ("ok"), a 2xx answer
\* with an empty body ("empty"), an error status, or no response at all.
LookupReplies == {"ok", "empty", "404", "503", "none"}
CallFailures == {"404", "503", "none"}
\* Outcomes of a pool.query: the statement runs, or it throws.
SqlOutcomes == {"ok", "error"}
\* Reaching the /disponibilidad router: the handler runs ("ok": its query
\* runs, "error": its query throws) or no response comes back ("none").
DispReplies == {"ok", "error", "none"}

NoCita == [id |-> 0, dniPaciente |-> "-", dniDoctor |-> "-", dia |-> "-", hora |-> "-"]

VARIABLES
    Disponibilidad,  \* the table: number of rows per (dni_doctor, dia, hora)
    citas,           \* the appointment records of the history service
    nextId,          \* next appointment id the history service issues
    req,             \* the book / cancel requests
    disp,            \* the last direct request to the /disponibilidad router
    ndisp,           \* number of direct /disponibilidad requests so far
    consumido        \* history: slots deleted by a booking and not inserted since

vars == <<Disponibilidad, citas, nextId, req, disp, ndisp, consumido>>

\* ------------------------------------------------------- response object
\* res.status(s).send(m): every attempt is recorded; the client receives
\* the first one (a later send throws "headers already sent").
Send(q, status, msg) ==
    [q EXCEPT !.sends = Append(@, [status |-> status, msg |-> msg]),
              !.log = Append(@, "send")]

\* axios.<method>(url): the call is issued.
Call(q, op) == [q EXCEPT !.log = Append(@, op)]

\* the call returned (or threw) with this outcome
Reply(q, op, reply) == [q EXCEPT !.replies = Append(@, [op |-> op, reply |-> reply])]

Done(q) == [q EXCEPT !.pc = "done"]

\* What the client receives: the first send.
Delivered(q) == q.sends[1]

\* ------------------------------------------------- /disponibilidad router
\* slip: the WHERE clause is missing
SelectDisponibilidadTodos(tbl, dni) ==
    {s \in Slots : tbl[s] > 0}

\* SELECT * FROM Disponibilidad WHERE dni_doctor = $1
SelectDisponibilidad(tbl, dni) ==
    {s \in Slots : s.dni_doctor = dni /\ tbl[s] > 0}

\* INSERT INTO Disponibilidad (dia, hora, dni_doctor) VALUES ($1, $2, $3)
InsertDisponibilidad(tbl, dni, dia, hora) ==
    [s \in Slots |->
        IF s.dni_doctor = dni /\ s.dia = dia /\ s.hora = hora
        THEN tbl[s] + 1 ELSE tbl[s]]

\* slip: the WHERE clause compares the time with <>
DeleteDisponibilidadOtraHora(tbl, dni, dia, hora) ==
    [s \in Slots |->
        IF s.dni_doctor = dni /\ s.dia = dia /\ s.hora # hora
        THEN 0 ELSE tbl[s]]

\* DELETE FROM Disponibilidad WHERE dni_doctor = $1 AND dia = $2 AND hora = $3
DeleteDisponibilidad(tbl, dni, dia, hora) ==
    [s \in Slots |->
        IF s.dni_doctor = dni /\ s.dia = dia /\ s.hora = hora
        THEN 0 ELSE tbl[s]]

\* slip: the rows of the doctor are counted whatever their day and time
RowCountDoctor(tbl, dni, dia, hora) ==
    IF \E s \in Slots : s.dni_doctor = dni /\ tbl[s] > 0 THEN 1 ELSE 0

\* result.rowCount of that DELETE
RowCount(tbl, dni, dia, hora) ==
    tbl[[dni_doctor |-> dni, dia |-> dia, hora |-> hora]]

\* router.get('/:dni'): status, body and table afterwards
DispGet(tbl, dni, sql) ==
    IF sql = "ok"
    THEN [status |-> 200, rows |-> SelectDisponibilidad(tbl, dni), tbl |-> tbl, rowCount |-> -1]
    ELSE [status |-> 500, rows |-> {}, tbl |-> tbl, rowCount |-> -1]

\* router.post('/:dni')
DispPost(tbl, dni, dia, hora, sql) ==
    IF sql = "ok"
    THEN [status |-> 200, rows |-> {}, tbl |-> InsertDisponibilidad(tbl, dni, dia, hora), rowCount |-> -1]
    ELSE [status |-> 500, rows |-> {}, tbl |-> tbl, rowCount |-> -1]

\* router.delete('/:dni')
DispDelete(tbl, dni, dia, hora, sql) ==
    IF sql = "ok"
    THEN IF RowCount(tbl, dni, dia, hora) = 0
         THEN [status |-> 404, rows |-> {}, tbl |-> tbl, rowCount |-> 0]
         ELSE [status |-> 200, rows |-> {},
               tbl |-> DeleteDisponibilidad(tbl, dni, dia, hora),
               rowCount |-> RowCount(tbl, dni, dia, hora)]
    ELSE [status |-> 500, rows |-> {}, tbl |-> tbl, rowCount |-> -1]

\* ------------------------------------------------------------ /agendar
\* slip: any 2xx answer counts as found, whether or not it has a body
HasDataCualquiera(reply) == reply \in {"ok", "empty"}

\* pacienteResponse?.data, doctorResponse?.data
HasData(reply) == reply = "ok"

\* slip: the status of the error response is dropped
StatusOfSiempre500(reply) == 500

\* error.response?.status || 500
StatusOf(reply) ==
    IF reply = "404" THEN 404 ELSE IF reply = "503" THEN 503 ELSE 500

\* slip: || in place of &&
SlotDisponibleDiaOHora(rows, dia, hora) ==
    \E d \in rows : d.dia = dia \/ d.hora = hora

\* disponibilidad.some(d => d.dia === dia && d.hora === hora)
SlotDisponible(rows, dia, hora) ==
    \E d \in rows : d.dia = dia /\ d.hora = hora

IdleReq ==
    [kind |-> "idle", impl |-> "-", dniPaciente |-> "-", dniDoctor |-> "-",
     dia |-> "-", hora |-> "-", idCita |-> 0, pc |-> "idle",
     log |-> <<>>, replies |-> <<>>, sends |-> <<>>,
     cita |-> NoCita, rowCount |-> -1, creada |-> 0,
     lista |-> <<>>, pend |-> {}, lookups |-> <<>>, entradas |-> <<>>, body |-> <<>>]

\* Requests are taken in order of their index.
CanStart(r) ==
    /\ req[r].kind = "idle"
    /\ \A o \in Reqs : o < r => req[o].kind # "idle"

\* POST /agendar arrives; the patient lookup is issued.
Agendar(r, dniPaciente, dniDoctor, dia, hora) ==
    /\ CanStart(r)
    /\ req' = [req EXCEPT ![r] =
            Call([IdleReq EXCEPT !.kind = "agendar", !.impl = "citas",
                                 !.dniPaciente = dniPaciente, !.dniDoctor = dniDoctor,
                                 !.dia = dia, !.hora = hora, !.pc = "paciente"],
                 "getPaciente")]
    /\ UNCHANGED <<Disponibilidad, citas, nextId, disp, ndisp, consumido>>

\* 1. the patient lookup returns
AgendarPaciente(r, reply) ==
    /\ req[r].kind = "agendar" /\ req[r].pc = "paciente"
    /\ LET q == Reply(req[r], "getPaciente", reply) IN
       req' = [req EXCEPT ![r] =
            IF reply \in {"ok", "empty"}
            THEN IF HasData(reply)
                 THEN Call([q EXCEPT !.pc = "doctor"], "getDoctor")
                 ELSE Done(Send(q, 404, "Paciente no encontrado"))
            ELSE Done(Send(q, StatusOf(reply),
                           IF StatusOf(reply) = 404 THEN "Paciente no encontrado"
                           ELSE "Error al verificar el Paciente"))]
    /\ UNCHANGED <<Disponibilidad, citas, nextId, disp, ndisp, consumido>>

\* 2. the doctor lookup returns
AgendarDoctor(r, reply) ==
    /\ req[r].kind = "agendar" /\ req[r].pc = "doctor"
    /\ LET q == Reply(req[r], "getDoctor", reply) IN
       req' = [req EXCEPT ![r] =
            IF reply \in {"ok", "empty"}
            THEN IF HasData(reply)
                 THEN Call([q EXCEPT !.pc = "disponibilidad"], "getDisp")
                 ELSE Done(Send(q, 404, "Doctor no encontrado"))
            ELSE Done(Send(q, StatusOf(reply),
                           IF StatusOf(reply) = 404 THEN "Doctor no encontrado"
                           ELSE "Error al verificar el doctor"))]
    /\ UNCHANGED <<Disponibilidad, citas, nextId, disp, ndisp, consumido>>

\* slip: the outer catch forwards the status of the failed call, as the
\* catch blocks of the two lookups do
AgendarCatchPasaEstado(q) ==
    Send(q, StatusOf(q.replies[Len(q.replies)].reply), "Error al agendar la cita")

\* The outer catch of the booking handler: 500 whatever the error.
AgendarCatch(q) == Send(q, 500, "Error al agendar la cita")

\* 3. the availability fetch returns
AgendarDisponibilidad(r, reply) ==
    /\ req[r].kind = "agendar" /\ req[r].pc = "disponibilidad"
    /\ LET q == Reply(req[r], "getDisp", reply)
           res == DispGet(Disponibilidad, req[r].dniDoctor, reply) IN
       req' = [req EXCEPT ![r] =
            IF reply = "none" \/ res.status # 200
            THEN Done(AgendarCatch(q))
            ELSE IF ~SlotDisponible(res.rows, q.dia, q.hora)
                 THEN Done(Send(q, 400, "El doctor no esta disponible"))
                 ELSE Call([q EXCEPT !.pc = "crear"], "postCita")]
    /\ UNCHANGED <<Disponibilidad, citas, nextId, disp, ndisp, consumido>>

\* slip: the slot deletion is issued before the response is sent
EliminarYResponder(q) ==
    Send(Call(q, "deleteDisp"), 201, "Cita agendada con exito")

\* slip: the response is left for after the slot deletion
EliminarSinResponder(q) == Call(q, "deleteDisp")

\* res.status(201).send(...) and then axios.delete(...) is issued
ResponderYEliminar(q) ==
    Call(Send(q, 201, "Cita agendada con exito"), "deleteDisp")

\* 4. the appointment creation returns; on success the 201 is sent and the
\*    slot deletion is issued
AgendarCrear(r, reply) ==
    /\ req[r].kind = "agendar" /\ req[r].pc = "crear"
    /\ LET q == Reply(req[r], "postCita", reply) IN
       IF reply = "ok"
       THEN /\ nextId <= MaxCitas
            /\ citas' = citas \cup {[id |-> nextId, dniPaciente |-> q.dniPaciente,
                                     dniDoctor |-> q.dniDoctor, dia |-> q.dia,
                                     hora |-> q.hora]}
            /\ nextId' = nextId + 1
            /\ req' = [req EXCEPT ![r] =
                    ResponderYEliminar([q EXCEPT !.pc = "eliminar", !.creada = nextId])]
       ELSE /\ req' = [req EXCEPT ![r] = Done(AgendarCatch(q))]
            /\ UNCHANGED <<citas, nextId>>
    /\ UNCHANGED <<Disponibilidad, disp, ndisp, consumido>>

\* 5. the slot deletion returns; a failure reaches the outer catch, which
\*    sends again
AgendarEliminar(r, reply) ==
    /\ req[r].kind = "agendar" /\ req[r].pc = "eliminar"
    /\ LET q == Reply(req[r], "deleteDisp", reply)
           res == DispDelete(Disponibilidad, q.dniDoctor, q.dia, q.hora, reply) IN
       IF reply = "none"
       THEN /\ req' = [req EXCEPT ![r] = Done(AgendarCatch(q))]
            /\ UNCHANGED <<Disponibilidad, consumido>>
       ELSE /\ Disponibilidad' = res.tbl
            /\ consumido' = IF res.status = 200
                            THEN consumido \cup {[dni_doctor |-> q.dniDoctor, dia |-> q.dia,
                                                  hora |-> q.hora]}
                            ELSE consumido
            /\ req' = [req EXCEPT ![r] =
                    IF res.status = 200
                    THEN Done([q EXCEPT !.rowCount = res.rowCount])
                    ELSE Done(AgendarCatch([q EXCEPT !.rowCount = res.rowCount]))]
    /\ UNCHANGED <<citas, nextId, disp, ndisp>>

\* ---------------------------------------------------- /cancelar/:idCita
\* The outer catch.  routes/citas.js answers 500 whatever the error; the
\* second router passes on error.response.status and answers 500 when no
\* response was received.
CancelarCatch(q, reply) ==
    IF q.impl = "citas"
    THEN Send(q, 500, "Error al cancelar la cita")
    ELSE IF reply # "none"
         THEN Send(q, StatusOf(reply), "error.response.data")
         ELSE Send(q, 500, "No se recibio respuesta del servicio de citas")

\* slip: the time of the restored slot is not the appointment's
SlotDeCitaOtraHora(cita) ==
    [dni_doctor |-> cita.dniDoctor, dia |-> cita.dia, hora |-> "09:00:00"]

\* const { dniDoctor, dia, hora } = cita
SlotDeCita(cita) ==
    [dni_doctor |-> cita.dniDoctor, dia |-> cita.dia, hora |-> cita.hora]

\* slip: the failure is logged only and the success answer goes out
RestaurarFalloSinAviso(q) ==
    Send(q, 200, "Cita cancelada y disponibilidad restaurada con exito")

\* slip: the failed insertion is issued a second time
RestaurarFalloReintento(q) ==
    Call(Send(q, 500, "Error al restaurar la disponibilidad"), "postDisp")

\* slip: the failure is logged and nothing is sent
RestaurarFalloMudo(q) == q

\* The inner catch around the slot re-insertion and what follows it.
\* routes/citas.js sends the 500 without returning, so the 200 after the
\* try block is attempted too, throws, and the outer catch sends again; the
\* second router returns after the 500.
RestaurarFallo(q) ==
    IF q.impl = "citas"
    THEN Send(Send(Send(q, 500, "Error restaurando la disponibilidad"),
                   200, "Cita cancelada y disponibilidad restaurada con exito"),
              500, "Error al cancelar la cita")
    ELSE Send(q, 500, "Error al restaurar la disponibilidad")

\* DELETE /cancelar/:idCita arrives; the appointment fetch is issued.
Cancelar(r, impl, idCita) ==
    /\ CanStart(r)
    /\ req' = [req EXCEPT ![r] =
            Call([IdleReq EXCEPT !.kind = "cancelar", !.impl = impl,
                                 !.idCita = idCita, !.pc = "obtener"],
                 "getCita")]
    /\ UNCHANGED <<Disponibilidad, citas, nextId, disp, ndisp, consumido>>

\* 1. the appointment fetch returns.  The history service answers a known
\*    id with the record; an unknown id with 404 or with an empty body.
CancelarObtener(r, reply) ==
    /\ req[r].kind = "cancelar" /\ req[r].pc = "obtener"
    /\ reply = "ok" => \E c \in citas : c.id = req[r].idCita
    /\ reply \in {"empty", "404"} => ~\E c \in citas : c.id = req[r].idCita
    /\ LET q == Reply(req[r], "getCita", reply) IN
       req' = [req EXCEPT ![r] =
            IF reply = "ok"
            THEN Call([q EXCEPT !.pc = "borrar",
                                !.cita = CHOOSE c \in citas : c.id = q.idCita],
                      "deleteCita")
            ELSE IF reply = "empty"
                 THEN Done(Send(q, 404, "Cita no encontrada"))
                 ELSE Done(CancelarCatch(q, reply))]
    /\ UNCHANGED <<Disponibilidad, citas, nextId, disp, ndisp, consumido>>

\* The answers of the history service to the DELETE of appointment id: it
\* deletes a record it holds unless it fails; for an id it no longer holds
\* it answers success (nothing to delete) or 404.
RespuestasBorrarCita(cs, id) ==
    {"ok", "503", "none"} \cup (IF \E c \in cs : c.id = id THEN {} ELSE {"404"})

\* slip: the deletion has a catch of its own that only logs, and the
\* handler goes on to the slot re-insertion
CancelarBorrarSigue(r, reply) ==
    /\ req[r].kind = "cancelar" /\ req[r].pc = "borrar"
    /\ reply \in RespuestasBorrarCita(citas, req[r].idCita)
    /\ LET q == Reply(req[r], "deleteCita", reply) IN
       /\ citas' = IF reply = "ok" THEN {c \in citas : c.id # q.idCita} ELSE citas
       /\ req' = [req EXCEPT ![r] = Call([q EXCEPT !.pc = "restaurar"], "postDisp")]
    /\ UNCHANGED <<Disponibilidad, nextId, disp, ndisp, consumido>>

\* 2. the appointment deletion returns; on success the slot re-insertion
\*    is issued.
CancelarBorrar(r, reply) ==
    /\ req[r].kind = "cancelar" /\ req[r].pc = "borrar"
    /\ reply \in RespuestasBorrarCita(citas, req[r].idCita)
    /\ LET q == Reply(req[r], "deleteCita", reply) IN
       IF reply = "ok"
       THEN /\ citas' = {c \in citas : c.id # q.idCita}
            /\ req' = [req EXCEPT ![r] = Call([q EXCEPT !.pc = "restaurar"], "postDisp")]
       ELSE /\ req' = [req EXCEPT ![r] = Done(CancelarCatch(q, reply))]
            /\ UNCHANGED citas
    /\ UNCHANGED <<Disponibilidad, nextId, disp, ndisp, consumido>>

\* 3. the slot re-insertion returns
CancelarRestaurar(r, reply) ==
    /\ req[r].kind = "cancelar" /\ req[r].pc = "restaurar"
    /\ LET q == Reply(req[r], "postDisp", reply)
           k == SlotDeCita(q.cita)
           res == DispPost(Disponibilidad, k.dni_doctor, k.dia, k.hora, reply) IN
       IF reply # "none" /\ res.status = 200
       THEN /\ Disponibilidad' = res.tbl
            /\ consumido' = consumido \ {k}
            /\ req' = [req EXCEPT ![r] =
                    Done(Send(q, 200, "Cita cancelada y disponibilidad restaurada con exito"))]
       ELSE /\ req' = [req EXCEPT ![r] = Done(RestaurarFallo(q))]
            /\ UNCHANGED <<Disponibilidad, consumido>>
    /\ UNCHANGED <<citas, nextId, disp, ndisp>>

\* ------------------------------------------------------- /:dniPaciente
\* Outcomes of a doctor lookup of the list handler: as LookupReplies, the
\* empty body being either the empty string ("empty") or null ("null").
ListaReplies == {"ok", "empty", "null", "404", "503", "none"}

\* doctorResponse.data of a doctor the directory knows
DoctorData(dni) == [nombres |-> dni, apellidos |-> dni, especialidad |-> dni]
\* the fields read from an empty-string body are undefined
SinDatos == [nombres |-> "undefined", apellidos |-> "undefined", especialidad |-> "undefined"]
\* 'Error al obtener los datos del doctor'
ErrorDoctor == [nombres |-> "Error", apellidos |-> "Error", especialidad |-> "Error"]

NoEntrada ==
    [id |-> 0, dniPaciente |-> "-", dniDoctor |-> "-", dia |-> "-", fecha |-> "-",
     hora |-> "-", doctor |-> SinDatos]

\* The element the map callback returns for one appointment: on success
\* { (id,) fecha, hora, doctor: {...} }, the id only in the second router;
\* in the catch { ...cita, doctor: 'Error al obtener los datos del doctor' }.
\* Reading a field of a null body throws into the same catch.
Entrada(impl, cita, reply) ==
    IF reply \in {"ok", "empty"}
    THEN [NoEntrada EXCEPT !.id = IF impl = "router2" THEN cita.id ELSE 0,
                           !.fecha = cita.dia,
                           !.hora = cita.hora,
                           !.doctor = IF reply = "ok" THEN DoctorData(cita.dniDoctor)
                                      ELSE SinDatos]
    ELSE [NoEntrada EXCEPT !.id = cita.id,
                           !.dniPaciente = cita.dniPaciente,
                           !.dniDoctor = cita.dniDoctor,
                           !.dia = cita.dia,
                           !.hora = cita.hora,
                           !.doctor = ErrorDoctor]

\* slip: results are pushed as the lookups complete
PonerEntradaAlLlegar(entradas, i, e) ==
    LET libre == CHOOSE j \in 1..Len(entradas) :
                    entradas[j] = NoEntrada /\ \A k \in 1..(j - 1) : entradas[k] # NoEntrada
    IN [entradas EXCEPT ![libre] = e]

\* Promise.all(citas.map(...)): the i-th result is the i-th callback's
PonerEntrada(entradas, i, e) == [entradas EXCEPT ![i] = e]

\* the history service's answer to GET /citas/paciente/:dni, in any order
CitasDePaciente(cs, dni) ==
    LET mias == {c \in cs : c.dniPaciente = dni} IN
    {f \in [1..Cardinality(mias) -> mias] :
        \A i, j \in 1..Cardinality(mias) : i # j => f[i] # f[j]}

\* n doctor lookups are issued, one per appointment
CallN(q, op, n) ==
    [q EXCEPT !.log = @ \o [i \in 1..n |-> op]]

\* GET /:dniPaciente arrives; the appointment fetch is issued.
Listar(r, impl, dniPaciente) ==
    /\ CanStart(r)
    /\ req' = [req EXCEPT ![r] =
            Call([IdleReq EXCEPT !.kind = "listar", !.impl = impl,
                                 !.dniPaciente = dniPaciente, !.pc = "citas"],
                 "getCitas")]
    /\ UNCHANGED <<Disponibilidad, citas, nextId, disp, ndisp, consumido>>

\* 1. the appointment fetch returns; with appointments, one doctor lookup
\*    per appointment is issued
ListarCitas(r, reply, lista) ==
    /\ req[r].kind = "listar" /\ req[r].pc = "citas"
    /\ IF reply = "ok" THEN lista \in CitasDePaciente(citas, req[r].dniPaciente)
       ELSE lista = <<>>
    /\ LET q == Reply(req[r], "getCitas", reply) IN
       req' = [req EXCEPT ![r] =
            IF reply \in {"ok", "empty"}
            THEN IF Len(lista) = 0
                 THEN Done(Send(q, 404, "No se encontraron citas para el paciente"))
                 ELSE CallN([q EXCEPT !.pc = "doctores",
                                      !.lista = lista,
                                      !.pend = 1..Len(lista),
                                      !.lookups = [i \in 1..Len(lista) |-> "-"],
                                      !.entradas = [i \in 1..Len(lista) |-> NoEntrada]],
                            "getDoctor", Len(lista))
            ELSE Done(Send(q, 500, "Error al obtener las citas del paciente"))]
    /\ UNCHANGED <<Disponibilidad, citas, nextId, disp, ndisp, consumido>>

\* 2. the doctor lookup of the i-th appointment returns, in any order; with
\*    the last one Promise.all resolves and the list is sent
ListarDoctor(r, i, reply) ==
    /\ req[r].kind = "listar" /\ req[r].pc = "doctores"
    /\ i \in req[r].pend
    /\ LET q == Reply(req[r], "getDoctor", reply)
           q2 == [q EXCEPT !.pend = @ \ {i},
                           !.lookups = [@ EXCEPT ![i] = reply],
                           !.entradas = PonerEntrada(@, i, Entrada(q.impl, q.lista[i], reply))]
       IN
       req' = [req EXCEPT ![r] =
            IF q2.pend = {}
            THEN Done(Send([q2 EXCEPT !.body = q2.entradas], 200, "json"))
            ELSE q2]
    /\ UNCHANGED <<Disponibilidad, citas, nextId, disp, ndisp, consumido>>

\* ------------------------------------- direct /disponibilidad requests
\* GET /disponibilidad/:dni
DisponibilidadGet(dni, sql) ==
    /\ ndisp < MaxDisp
    /\ ndisp' = ndisp + 1
    /\ LET res == DispGet(Disponibilidad, dni, sql) IN
       disp' = [op |-> "get", dni |-> dni, dia |-> "-", hora |-> "-",
                status |-> res.status, rows |-> res.rows]
    /\ UNCHANGED <<Disponibilidad, citas, nextId, req, consumido>>

\* POST /disponibilidad/:dni {dia, hora}
DisponibilidadPost(dni, dia, hora, sql) ==
    /\ ndisp < MaxDisp
    /\ ndisp' = ndisp + 1
    /\ LET res == DispPost(Disponibilidad, dni, dia, hora, sql) IN
       /\ Disponibilidad' = res.tbl
       /\ disp' = [op |-> "post", dni |-> dni, dia |-> dia, hora |-> hora,
                   status |-> res.status, rows |-> res.rows]
       /\ consumido' = IF res.status = 200
                       THEN consumido \ {[dni_doctor |-> dni, dia |-> dia, hora |-> hora]}
                       ELSE consumido
    /\ UNCHANGED <<citas, nextId, req>>

\* DELETE /disponibilidad/:dni {dia, hora}
DisponibilidadDelete(dni, dia, hora, sql) ==
    /\ ndisp < MaxDisp
    /\ ndisp' = ndisp + 1
    /\ LET res == DispDelete(Disponibilidad, dni, dia, hora, sql) IN
       /\ Disponibilidad' = res.tbl
       /\ disp' = [op |-> "delete", dni |-> dni, dia |-> dia, hora |-> hora,
                   status |-> res.status, rows |-> res.rows]
    /\ UNCHANGED <<citas, nextId, req, consumido>>

\* ------------------------------------------------------------------ Init
Slot0 == [dni_doctor |-> "456", dia |-> "Lunes", hora |-> "09:00:00"]
Cita0 == [id |-> 1, dniPaciente |-> "123", dniDoctor |-> "789", dia |-> "Lunes",
          hora |-> "10:00:00"]
SlotDeCita0 == [dni_doctor |-> "789", dia |-> "Lunes", hora |-> "10:00:00"]

NoDisp == [op |-> "-", dni |-> "-", dia |-> "-", hora |-> "-", status |-> 0, rows |-> {}]

Init ==
    /\ Disponibilidad = [s \in Slots |-> IF s = Slot0 THEN 1 ELSE 0]
    /\ \/ citas = {} /\ nextId = 1
       \/ citas = {Cita0} /\ nextId = 2
    /\ req = [r \in Reqs |-> IdleReq]
    /\ disp = NoDisp
    /\ ndisp = 0
    /\ consumido = {}

\* the steps of the book and cancel requests r
Handlers(r) ==
    \/ \E p \in Pacientes, d \in Doctores, dia \in Dias, hora \in Horas :
            Agendar(r, p, d, dia, hora)
    \/ \E reply \in LookupReplies : AgendarPaciente(r, reply)
    \/ \E reply \in LookupReplies : AgendarDoctor(r, reply)
    \/ \E reply \in DispReplies : AgendarDisponibilidad(r, reply)
    \/ \E reply \in {"ok"} \cup CallFailures : AgendarCrear(r, reply)
    \/ \E reply \in DispReplies : AgendarEliminar(r, reply)
    \/ \E impl \in {"citas", "router2"}, id \in CitaIds : Cancelar(r, impl, id)
    \/ \E reply \in LookupReplies : CancelarObtener(r, reply)
    \/ \E reply \in {"ok"} \cup CallFailures : CancelarBorrar(r, reply)
    \/ \E reply \in DispReplies : CancelarRestaurar(r, reply)

\* direct requests to the /disponibilidad router
Router ==
    \/ \E d \in Doctores, sql \in SqlOutcomes : DisponibilidadGet(d, sql)
    \/ \E d \in Doctores, dia \in Dias, hora \in Horas, sql \in SqlOutcomes :
            DisponibilidadPost(d, dia, hora, sql)
    \/ \E d \in Doctores, dia \in Dias, hora \in Horas, sql \in SqlOutcomes :
            DisponibilidadDelete(d, dia, hora, sql)

\* Concurrent book and cancel requests.
Next == \E r \in Reqs : Handlers(r)

Spec == Init /\ [][Next]_vars

\* One book or cancel request among direct /disponibilidad requests.
NextDisp == Handlers(1) \/ Router

SpecDisp == Init /\ [][NextDisp]_vars

\* ------------------------------------------------ one request of any kind
Cita1 == [id |-> 2, dniPaciente |-> "123", dniDoctor |-> "456", dia |-> "Lunes",
          hora |-> "10:00:00"]

\* as Init, or with a patient who has two appointments
InitListar ==
    /\ Disponibilidad = [s \in Slots |-> IF s = Slot0 THEN 1 ELSE 0]
    /\ \/ citas = {} /\ nextId = 1
       \/ citas = {Cita0} /\ nextId = 2
       \/ citas = {Cita0, Cita1} /\ nextId = 3
    /\ req = [r \in Reqs |-> IdleReq]
    /\ disp = NoDisp
    /\ ndisp = 0
    /\ consumido = {}

\* the steps of the list request r
ListarHandlers(r) ==
    \/ \E impl \in {"citas", "router2"}, p \in Pacientes : Listar(r, impl, p)
    \/ \E reply \in LookupReplies, lista \in CitasDePaciente(citas, req[r].dniPaciente) \cup {<<>>} :
            ListarCitas(r, reply, lista)
    \/ \E i \in 1..2, reply \in ListaReplies : ListarDoctor(r, i, reply)

\* One book, cancel or list request among direct /disponibilidad requests.
NextListar == Handlers(1) \/ ListarHandlers(1) \/ Router

SpecListar == InitListar /\ [][NextListar]_vars

\* Requests one after the other: a request starts and steps only when the
\* requests before it are over.
NextSecuencial ==
    \E r \in Reqs : /\ \A o \in Reqs : o < r => req[o].pc = "done"
                    /\ Handlers(r)

SpecSecuencial == Init /\ [][NextSecuencial]_vars

\* the remote calls in flight of request r return
Retornos(r) ==
    \/ \E reply \in LookupReplies : AgendarPaciente(r, reply)
    \/ \E reply \in LookupReplies : AgendarDoctor(r, reply)
    \/ \E reply \in DispReplies : AgendarDisponibilidad(r, reply)
    \/ \E reply \in {"ok"} \cup CallFailures : AgendarCrear(r, reply)
    \/ \E reply \in DispReplies : AgendarEliminar(r, reply)
    \/ \E reply \in LookupReplies : CancelarObtener(r, reply)
    \/ \E reply \in {"ok"} \cup CallFailures : CancelarBorrar(r, reply)
    \/ \E reply \in DispReplies : CancelarRestaurar(r, reply)
    \/ \E reply \in LookupReplies, lista \in CitasDePaciente(citas, req[r].dniPaciente) \cup {<<>>} :
            ListarCitas(r, reply, lista)
    \/ \E i \in 1..2, reply \in ListaReplies : ListarDoctor(r, i, reply)

\* One request of any kind, alone with the services.
NextJusto == Handlers(1) \/ ListarHandlers(1)

\* One request of any kind, every remote call of which eventually returns.
SpecListarJusto == InitListar /\ [][NextJusto]_vars /\ WF_vars(Retornos(1))

\* ================================================================ claims
Agendando(r) == req[r].kind = "agendar"
Cancelando(r) == req[r].kind = "cancelar"
Terminado(r) == req[r].pc = "done"

\* the outcome of the n-th remote call of a request ("-" while there is none)
ReplyN(q, n) == IF Len(q.replies) >= n THEN q.replies[n].reply ELSE "-"

\* how many times a request's log holds an event
Count(q, ev) == Cardinality({i \in 1..Len(q.log) : q.log[i] = ev})

SlotDe(q) == [dni_doctor |-> q.dniDoctor, dia |-> q.dia, hora |-> q.hora]

Max0(n) == IF n < 0 THEN 0 ELSE n

\* C1: two booking requests for the same (doctor, day, time) that have both
\* created an appointment, and whose deletion queries both ran, have
\* consumed two rows of the availability table between them; against a
\* single slot they never both create one.
C1_DosCitasDosSlots ==
    \A r1, r2 \in Reqs :
        ( /\ r1 # r2
          /\ Agendando(r1) /\ Agendando(r2)
          /\ Terminado(r1) /\ Terminado(r2)
          /\ SlotDe(req[r1]) = SlotDe(req[r2])
          /\ req[r1].creada # 0 /\ req[r2].creada # 0
          /\ ReplyN(req[r1], 5) = "ok" /\ ReplyN(req[r2], 5) = "ok" )
        => Max0(req[r1].rowCount) + Max0(req[r2].rowCount) >= 2

\* C2: a finished booking whose patient lookup, doctor lookup, availability
\* fetch (with a matching slot) and appointment creation succeeded, and
\* whose deletion query ran, has created exactly one appointment and has
\* removed exactly one row.
C2_AgendarConsumeUno ==
    \A r \in Reqs :
        ( /\ Agendando(r) /\ Terminado(r)
          /\ ReplyN(req[r], 1) = "ok" /\ ReplyN(req[r], 2) = "ok"
          /\ ReplyN(req[r], 3) = "ok" /\ ReplyN(req[r], 4) = "ok"
          /\ ReplyN(req[r], 5) = "ok" )
        => /\ req[r].creada # 0
           /\ Count(req[r], "postCita") = 1
           /\ req[r].rowCount = 1

\* C3: a booking whose patient lookup answered 404 or answered with an
\* empty body is over, was answered 404, and issued no other remote call:
\* no appointment creation, no slot deletion.
C3_PacienteNoExiste ==
    \A r \in Reqs :
        (Agendando(r) /\ ReplyN(req[r], 1) \in {"404", "empty"})
        => /\ Terminado(r)
           /\ req[r].sends = <<[status |-> 404, msg |-> "Paciente no encontrado"]>>
           /\ req[r].log = <<"getPaciente", "send">>
           /\ req[r].creada = 0
           /\ req[r].rowCount = -1

C3_Witness ==
    \E r \in Reqs :
        Agendando(r) /\ ReplyN(req[r], 1) = "empty" /\ Terminado(r)

\* C4: a booking whose patient lookup succeeded and whose doctor lookup
\* answered 404 or answered with an empty body is over, was answered 404
\* "Doctor no encontrado", and issued neither the availability fetch nor
\* the appointment creation nor the slot deletion.
C4_DoctorNoExiste ==
    \A r \in Reqs :
        (Agendando(r) /\ ReplyN(req[r], 1) = "ok" /\ ReplyN(req[r], 2) \in {"404", "empty"})
        => /\ Terminado(r)
           /\ req[r].sends = <<[status |-> 404, msg |-> "Doctor no encontrado"]>>
           /\ req[r].log = <<"getPaciente", "getDoctor", "send">>
           /\ req[r].creada = 0
           /\ req[r].rowCount = -1

C4_Witness ==
    \E r \in Reqs :
        Agendando(r) /\ ReplyN(req[r], 1) = "ok" /\ ReplyN(req[r], 2) = "404" /\ Terminado(r)

\* C5: when the availability fetch of a booking returns and the table
\* holds no row of the doctor with the requested day and time, the request
\* is answered 400 and is over without issuing the appointment creation;
\* no appointment is created in that step.
C5_SinDisponibilidad ==
    [][\A r \in Reqs :
        ( /\ Agendando(r) /\ req[r].pc = "disponibilidad"
          /\ req'[r] # req[r]
          /\ ReplyN(req'[r], 3) = "ok"
          /\ Disponibilidad[SlotDe(req[r])] = 0 )
        => /\ req'[r].pc = "done"
           /\ Len(req'[r].sends) = 1
           /\ req'[r].sends[1].status = 400
           /\ Count(req'[r], "postCita") = 0
           /\ req'[r].creada = 0
           /\ citas' = citas
           /\ Disponibilidad' = Disponibilidad]_vars

\* a request for 10:00:00 answered 400 while the doctor has a 09:00:00 slot
C5_Witness ==
    \E r \in Reqs :
        /\ Agendando(r) /\ Terminado(r)
        /\ ReplyN(req[r], 3) = "ok"
        /\ Len(req[r].sends) = 1 /\ req[r].sends[1].status = 400
        /\ \E s \in Slots : /\ s.dni_doctor = req[r].dniDoctor
                            /\ s.hora # req[r].hora
                            /\ Disponibilidad[s] > 0

\* C6: a cancel request whose appointment fetch answered 404 or answered
\* with an empty body is over, was answered 404, and issued neither the
\* appointment deletion nor the slot insertion.
C6_CitaDesconocida ==
    \A r \in Reqs :
        (Cancelando(r) /\ ReplyN(req[r], 1) \in {"404", "empty"})
        => /\ Terminado(r)
           /\ Len(req[r].sends) = 1
           /\ req[r].sends[1].status = 404
           /\ req[r].log = <<"getCita", "send">>

CitaIdsDe(cs) == {c.id : c \in cs}

C8_RestauracionFalla ==
    \A r \in Reqs :
        (Cancelando(r) /\ Terminado(r) /\ ReplyN(req[r], 3) \in {"error", "none"})
        => /\ ReplyN(req[r], 2) = "ok"
           /\ req[r].cita.id \notin CitaIdsDe(citas)
           /\ Delivered(req[r]).status = 500
           /\ Delivered(req[r]).msg \in {"Error restaurando la disponibilidad",
                                         "Error al restaurar la disponibilidad"}
           /\ Count(req[r], "postDisp") = 1
           /\ Count(req[r], "deleteCita") = 1
           /\ Count(req[r], "postCita") = 0

C8_Witness ==
    \E r \in Reqs :
        /\ Cancelando(r) /\ Terminado(r) /\ req[r].impl = "citas"
        /\ ReplyN(req[r], 3) = "error"
        /\ req[r].cita = Cita0 /\ citas = {}

\* C9: the availability table holds at most one row per (doctor, day, time).
C9_SlotUnico ==
    \A s \in Slots : Disponibilidad[s] <= 1

\* C10 as stated: an availability read for the doctor of a booking that has
\* been answered 201 does not list the booked slot.
C10_NoListadoTras201 ==
    [][\A r \in Reqs :
        ( /\ Agendando(r)
          /\ Len(req[r].sends) >= 1 /\ Delivered(req[r]).status = 201
          /\ ndisp' = ndisp + 1
          /\ disp'.op = "get" /\ disp'.status = 200
          /\ disp'.dni = req[r].dniDoctor )
        => SlotDe(req[r]) \notin disp'.rows]_vars

\* C10 amended: a slot whose rows a booking's deletion has removed, and
\* that has not been inserted since, has no row in the table, and an
\* availability read for its doctor does not list it.
C10_NoListadoTrasEliminar ==
    [][\A k \in consumido :
        /\ Disponibilidad[k] = 0
        /\ ( /\ ndisp' = ndisp + 1
             /\ disp'.op = "get" /\ disp'.status = 200
             /\ disp'.dni = k.dni_doctor )
           => k \notin disp'.rows]_vars

\* the only direct request so far is a read of doctor 456 that came after
\* the booking's deletion of the initial slot
C10_Witness ==
    /\ Slot0 \in consumido
    /\ ndisp = 1
    /\ disp.op = "get" /\ disp.status = 200 /\ disp.dni = "456"
    /\ Slot0 \notin disp.rows

\* position of the first occurrence of an event in a request's log (0: none)
Pos(q, ev) ==
    IF Count(q, ev) = 0 THEN 0
    ELSE CHOOSE i \in 1..Len(q.log) :
            q.log[i] = ev /\ \A j \in 1..(i - 1) : q.log[j] # ev

\* C11: a booking whose appointment creation succeeded has sent 201 as its
\* first response, right after the creation call and before the slot
\* deletion call is issued; while the deletion is in flight the 201 is
\* already out.
C11_RespuestaAntesDeEliminar ==
    \A r \in Reqs :
        (Agendando(r) /\ ReplyN(req[r], 4) = "ok")
        => /\ Len(req[r].sends) >= 1
           /\ Delivered(req[r]).status = 201
           /\ Pos(req[r], "send") = Pos(req[r], "postCita") + 1
           /\ Pos(req[r], "deleteDisp") = Pos(req[r], "send") + 1

C11_Witness ==
    \E r \in Reqs :
        /\ Agendando(r) /\ req[r].pc = "eliminar"
        /\ Len(req[r].replies) = 4
        /\ Delivered(req[r]).status = 201

\* C12: when the slot deletion of a booking fails (the query throws, no
\* response comes back, or the router answers 404), that step leaves the
\* appointments and the availability table as they were, and the response
\* the client has is the 201 sent before.
C12_EliminarFalla ==
    [][\A r \in Reqs :
        ( /\ Agendando(r) /\ req[r].pc = "eliminar"
          /\ req'[r] # req[r]
          /\ \/ ReplyN(req'[r], 5) \in {"error", "none"}
             \/ req'[r].rowCount = 0 )
        => /\ citas' = citas
           /\ Disponibilidad' = Disponibilidad
           /\ req'[r].pc = "done"
           /\ Delivered(req'[r]).status = 201
           /\ Delivered(req'[r]) = Delivered(req[r])
           /\ Count(req'[r], "postDisp") = 0
           /\ Count(req'[r], "deleteCita") = 0]_vars

\* the booking is over after a failed deletion; its appointment and the
\* slot's row are still there
C12_Witness ==
    \E r \in Reqs :
        /\ Agendando(r) /\ Terminado(r)
        /\ ReplyN(req[r], 5) = "error"
        /\ req[r].creada \in CitaIdsDe(citas)
        /\ Disponibilidad[SlotDe(req[r])] = 1

\* C13: the status a POST /agendar client receives is 201, 400, 404 or 500.
C13_EstadosAgendar ==
    \A r \in Reqs :
        (Agendando(r) /\ Len(req[r].sends) >= 1)
        => Delivered(req[r]).status \in {201, 400, 404, 500}

\* C14: the status a DELETE /cancelar/:idCita client receives is 200, 404
\* or 500.
C14_EstadosCancelar ==
    \A r \in Reqs :
        (Cancelando(r) /\ Len(req[r].sends) >= 1)
        => Delivered(req[r]).status \in {200, 404, 500}

Listando(r) == req[r].kind = "listar"

\* C15: a list request whose appointment fetch returned no appointment is
\* answered 404 without any doctor lookup; one whose fetch returned N >= 1
\* appointments issues N lookups and, once over, has answered 200 with N
\* entries, the i-th made from the i-th fetched appointment and the outcome
\* of its own lookup, whatever the order in which the lookups returned: a
\* failed lookup gives the appointment's fields with the error marker as
\* doctor, a successful one gives its day as fecha, its hora and the
\* doctor's data.
C15_Listado ==
    \A r \in Reqs :
        (Listando(r) /\ ReplyN(req[r], 1) = "ok") =>
            IF Len(req[r].lista) = 0
            THEN /\ Terminado(r)
                 /\ req[r].sends = <<[status |-> 404,
                                      msg |-> "No se encontraron citas para el paciente"]>>
                 /\ Count(req[r], "getDoctor") = 0
            ELSE /\ Count(req[r], "getDoctor") = Len(req[r].lista)
                 /\ Terminado(r) =>
                    /\ req[r].sends = <<[status |-> 200, msg |-> "json"]>>
                    /\ Len(req[r].body) = Len(req[r].lista)
                    /\ \A i \in 1..Len(req[r].lista) :
                        LET c == req[r].lista[i]
                            e == req[r].body[i] IN
                        /\ e.hora = c.hora
                        /\ req[r].lookups[i] \in {"404", "503", "none"}
                              => /\ e.doctor = ErrorDoctor
                                 /\ e.id = c.id /\ e.dia = c.dia
                                 /\ e.dniDoctor = c.dniDoctor
                        /\ req[r].lookups[i] = "ok"
                              => /\ e.doctor = DoctorData(c.dniDoctor)
                                 /\ e.fecha = c.dia

\* two appointments listed; the lookup of the second returned first and
\* the lookup of the first failed
C15_Witness ==
    \E r \in Reqs :
        /\ Listando(r) /\ Terminado(r)
        /\ Len(req[r].lista) = 2
        /\ req[r].replies[2].reply = "ok"
        /\ req[r].lookups = <<"503", "ok">>
        /\ req[r].body[1].doctor = ErrorDoctor
        /\ req[r].body[2].doctor = DoctorData(req[r].lista[2].dniDoctor)

\* C16: a DELETE /disponibilidad/:dni whose query runs: with no row of
\* (dni, dia, hora) it answers 404 and leaves the table as it was; with one
\* it answers 200, leaves no row of (dni, dia, hora) and leaves the rows
\* of every other (doctor, day, time) as they were.
C16_EliminarDisponibilidad ==
    [][( /\ ndisp' = ndisp + 1
         /\ disp'.op = "delete"
         /\ disp'.status # 500 )
       => LET k == [dni_doctor |-> disp'.dni, dia |-> disp'.dia, hora |-> disp'.hora] IN
          IF Disponibilidad[k] = 0
          THEN /\ disp'.status = 404
               /\ Disponibilidad' = Disponibilidad
          ELSE /\ disp'.status = 200
               /\ Disponibilidad'[k] = 0
               /\ \A s \in Slots \ {k} : Disponibilidad'[s] = Disponibilidad[s]]_vars

\* a slot was deleted with 200 while another slot of the same doctor stays
C16_Witness ==
    /\ disp.op = "delete" /\ disp.status = 200
    /\ Disponibilidad[[dni_doctor |-> disp.dni, dia |-> disp.dia, hora |-> disp.hora]] = 0
    /\ \E s \in Slots : s.dni_doctor = disp.dni /\ Disponibilidad[s] > 0

\* the remote calls of a request, in the order of their issue
Calls(q) == SelectSeq(q.log, LAMBDA e : e # "send")

IsPrefix(s, t) ==
    Len(s) <= Len(t) /\ \A i \in 1..Len(s) : s[i] = t[i]

\* C17: the remote calls of a booking are a prefix of patient lookup,
\* doctor lookup, availability fetch, appointment creation, slot deletion;
\* the creation is issued only after the two lookups and the fetch of the
\* same request succeeded, and in the step in which the fetch found a row
\* of the requested (doctor, day, time).
C17_OrdenDeLlamadas ==
    [][\A r \in Reqs :
        Agendando(r)' =>
          /\ IsPrefix(Calls(req'[r]),
                      <<"getPaciente", "getDoctor", "getDisp", "postCita", "deleteDisp">>)
          /\ Count(req'[r], "postCita") >= 1
                => /\ ReplyN(req'[r], 1) = "ok"
                   /\ ReplyN(req'[r], 2) = "ok"
                   /\ ReplyN(req'[r], 3) = "ok"
          /\ (Count(req[r], "postCita") = 0 /\ Count(req'[r], "postCita") = 1)
                => /\ req[r].pc = "disponibilidad"
                   /\ Disponibilidad[SlotDe(req'[r])] > 0]_vars

C17_Witness ==
    \E r \in Reqs :
        /\ Agendando(r) /\ req[r].pc = "crear"
        /\ Calls(req[r]) = <<"getPaciente", "getDoctor", "getDisp", "postCita">>

\* C18: requests run one after the other, from the initial table of unique
\* slots: once a booking all of whose calls succeeded and then a cancel of
\* the appointment it created, all of whose calls succeeded, are over (and
\* nothing else has run), the table is the initial one and the appointment
\* is gone, the appointments being those of before the booking.
C18_AgendarYCancelar ==
    ( /\ Agendando(1) /\ Terminado(1)
      /\ \A n \in 1..5 : ReplyN(req[1], n) = "ok"
      /\ req[1].rowCount = 1
      /\ MaxReqs >= 2
      /\ Cancelando(2) /\ Terminado(2)
      /\ req[2].idCita = req[1].creada
      /\ \A n \in 1..3 : ReplyN(req[2], n) = "ok"
      /\ \A r \in Reqs : r > 2 => req[r].kind = "idle" )
    => /\ Disponibilidad = [s \in Slots |-> IF s = Slot0 THEN 1 ELSE 0]
       /\ req[1].creada \notin CitaIdsDe(citas)
       /\ citas \subseteq {Cita0}
       /\ Cardinality(citas) = nextId - 2

C18_Witness ==
    /\ Agendando(1) /\ Terminado(1) /\ req[1].rowCount = 1
    /\ Cancelando(2) /\ Terminado(2)
    /\ req[2].idCita = req[1].creada
    /\ \A n \in 1..3 : ReplyN(req[2], n) = "ok"
    /\ Disponibilidad[Slot0] = 1

\* C19: in a book or cancel request every remote call is issued at most
\* once, every reply but the last is a success, and after a failed reply
\* no call is left or issued; in a list request the fetch is issued once
\* and one doctor lookup per fetched appointment, none after a failed
\* fetch.
C19_SinReintentos ==
    \A r \in Reqs :
        /\ (Agendando(r) \/ Cancelando(r)) =>
            /\ \A op \in {"getPaciente", "getDoctor", "getDisp", "postCita", "deleteDisp",
                          "getCita", "deleteCita", "postDisp"} : Count(req[r], op) <= 1
            /\ \A i \in 1..(Len(req[r].replies) - 1) : req[r].replies[i].reply = "ok"
            /\ ( /\ Len(req[r].replies) >= 1
                 /\ req[r].replies[Len(req[r].replies)].reply # "ok" )
               => /\ Len(Calls(req[r])) = Len(req[r].replies)
                  /\ Terminado(r)
            /\ Terminado(r) => Len(Calls(req[r])) = Len(req[r].replies)
        /\ Listando(r) =>
            /\ Count(req[r], "getCitas") = 1
            /\ Count(req[r], "getDoctor") = Len(req[r].lista)
            /\ Len(Calls(req[r])) = 1 + Len(req[r].lista)
            /\ (ReplyN(req[r], 1) \notin {"ok", "-"})
               => Len(Calls(req[r])) = 1 /\ Terminado(r)
            /\ Len(req[r].replies) <= Len(Calls(req[r]))

\* a cancel request is over after its failed slot insertion
C19_Witness ==
    \E r \in Reqs :
        /\ Cancelando(r) /\ Terminado(r)
        /\ ReplyN(req[r], 3) = "error"
        /\ Calls(req[r]) = <<"getCita", "deleteCita", "postDisp">>

\* C20: with every remote call returning, a request that has arrived is
\* eventually answered; and an unanswered request always has a remote call
\* in flight.
C20_Responde ==
    /\ \A r \in Reqs : (req[r].kind # "idle") ~> (Len(req[r].sends) >= 1)
    /\ [](\A r \in Reqs :
            (req[r].kind # "idle" /\ Len(req[r].sends) = 0)
            => /\ req[r].pc \notin {"idle", "done"}
               /\ Len(Calls(req[r])) > Len(req[r].replies))

C20_Witness ==
    \E r \in Reqs :
        /\ Cancelando(r) /\ Terminado(r)
        /\ ReplyN(req[r], 3) = "none"
        /\ Len(req[r].sends) >= 1

\* C21: a book or cancel request attempts at most one send.
C21_UnEnvio ==
    \A r \in Reqs :
        (Agendando(r) \/ Cancelando(r)) => Len(req[r].sends) <= 1

\* C22: for one appointment id, at most one of the cancel requests for it
\* inserts a slot, whatever the interleaving.
C22_UnaInsercionPorCita ==
    \A id \in CitaIds :
        Cardinality({r \in Reqs : /\ Cancelando(r)
                                  /\ req[r].idCita = id
                                  /\ ReplyN(req[r], 3) = "ok"}) <= 1

\* the step in which reply number n of request r arrives
LlegaReply(r, n) ==
    Len(req[r].replies) = n - 1 /\ Len(req'[r].replies) = n

\* C23: a cancel request whose appointment deletion failed is over, has
\* issued no slot insertion, and its caller receives an error status; the
\* step in which the failure arrives leaves the availability table as it
\* was.
C23_BorradoFalla ==
    [][\A r \in Reqs :
        (Cancelando(r)' /\ ReplyN(req'[r], 2) \notin {"ok", "-"}) =>
          /\ Terminado(r)'
          /\ Count(req'[r], "postDisp") = 0
          /\ Len(req'[r].replies) = 2
          /\ Len(req'[r].sends) >= 1
          /\ Delivered(req'[r]).status >= 400
          /\ LlegaReply(r, 2) => Disponibilidad' = Disponibilidad]_vars

C23_Witness ==
    \E r \in Reqs :
        /\ Cancelando(r) /\ Terminado(r)
        /\ ReplyN(req[r], 2) = "503"
        /\ Len(req[r].sends) >= 1

\* C24: a booking request whose availability fetch or appointment creation
\* failed is over, its caller receives 500, it has issued no slot deletion,
\* and the step in which the failure arrives leaves the availability
\* table as it was.
C24_FetchOCreacionFalla ==
    [][\A r \in Reqs :
        ( /\ Agendando(r)'
          /\ \/ ReplyN(req'[r], 3) \in {"error", "none"}
             \/ ReplyN(req'[r], 4) \in CallFailures ) =>
          /\ Terminado(r)'
          /\ Len(req'[r].sends) >= 1
          /\ Delivered(req'[r]).status = 500
          /\ Count(req'[r], "deleteDisp") = 0
          /\ (LlegaReply(r, 3) \/ LlegaReply(r, 4)) => Disponibilidad' = Disponibilidad]_vars

\* the creation of the appointment failed with a status of its own
C24_Witness ==
    \E r \in Reqs :
        /\ Agendando(r) /\ Terminado(r)
        /\ ReplyN(req[r], 4) = "503"
        /\ Len(req[r].sends) >= 1

\* C25: a GET /disponibilidad/:dni whose query runs answers 200 with
\* the rows of the table whose doctor is dni and no others (none when the
\* doctor has no row), and leaves the table as it was.
C25_ListarDisponibilidad ==
    [][( /\ ndisp' = ndisp + 1
         /\ disp'.op = "get"
         /\ disp'.status # 500 )
       => /\ disp'.status = 200
          /\ disp'.rows = {s \in Slots : s.dni_doctor = disp'.dni /\ Disponibilidad[s] > 0}
          /\ Disponibilidad' = Disponibilidad]_vars

\* rows of the doctor were returned while another doctor has rows too
C25_Witness ==
    /\ disp.op = "get" /\ disp.status = 200
    /\ disp.rows # {}
    /\ \E s \in Slots : s.dni_doctor # disp.dni /\ Disponibilidad[s] > 0

====
